---- MODULE Spec2Model ----
(***************************************************************************)
(* Model of student/objdet_detect.py: load_configs / load_configs_model,   *)
(* create_model and detect_objects (inference, backend-specific decode,    *)
(* projection from BEV pixels into vehicle space, range gating).           *)
(*                                                                         *)
(* Number representation (exact fixed point, no rounding is modelled):     *)
(*   - BEV pixel quantities are integers in 1/100 pixel;                   *)
(*   - metric quantities are integers in 1/U metre, U = 100 * bev_height,  *)
(*     so that bev / bev_height * range is the integer bev * range;        *)
(*   - confidences, thresholds and sigmoid values are in 1/100;            *)
(*   - logits are in 1/100; angles are in units of pi/4.                   *)
(***************************************************************************)
EXTENDS Integers, Sequences, FiniteSets, TLC

\* ------------------------------------------------------------ bounds
\* Samples in an input batch.
MaxBatch == 2

\* Rows the direct-regression backend yields for a batch.
MaxRows == 2

\* Heat-map positions with a high centre logit in a batch.
MaxHot == 3

\* Cells of the heat map (hm_size is 152 x 152 in load_configs_model).
GridW == 2

\* configs.k, scaled down with the heat map (50 in load_configs_model).
TopK == 2

\* ------------------------------------------------------------ units
BevSide == 608
U == BevSide * 100

Px(n) == n * 100

Metres(n) == n * U

\* ------------------------------------------------------------ helpers
Min2(a, b) == IF a <= b THEN a ELSE b

\* 'darknet' in configs.arch: an architecture name is a sequence of name
\* fragments; a fragment occurs in it when it is one of its elements.
Contains(arch, frag) == \E i \in 1..Len(arch) : arch[i] = frag

\* ------------------------------------------------------------ configuration
ModelNames == {"darknet", "fpn_resnet", "yolo"}

ArchValues ==
  { <<"darknet">>, <<"fpn_resnet">>, <<"yolo">>,
    <<"my_", "darknet">>, <<"fpn_resnet", "_v2">>,
    <<"darknet", "_", "fpn_resnet">> }

EmptyConfigs ==
  [ keys |-> {}, arch |-> <<>>, cfgfile |-> "unset",
    conf_thresh |-> 0, nms_thresh |-> 0, k |-> 0, peak_thresh |-> 0,
    num_classes |-> 0, down_ratio |-> 0,
    lim_x |-> <<0, 0>>, lim_y |-> <<0, 0>>, lim_z |-> <<0, 0>>,
    bev_width |-> 0, bev_height |-> 0 ]

Has(c, key) == key \in c.keys

HasAll(c, ks) == ks \subseteq c.keys

CommonKeys == {"model_path", "pretrained_filename", "arch", "batch_size",
               "conf_thresh", "distributed", "num_samples", "num_workers",
               "pin_memory", "min_iou", "no_cuda", "gpu_idx", "device"}

DarknetKeys == {"cfgfile", "img_size", "nms_thresh", "use_giou_loss"}

ResnetKeys == {"pretrained_path", "num_layers", "saved_fn", "k", "peak_thresh",
               "save_test_output", "output_format", "output_video_fn",
               "output_width", "input_size", "hm_size", "down_ratio",
               "max_objects", "imagenet_pretrained", "head_conv",
               "num_classes", "num_center_offset", "num_z", "num_dim",
               "num_direction", "heads", "num_input_features"}

BevKeys == {"lim_x", "lim_y", "lim_z", "lim_r", "bev_width", "bev_height"}

VisKeys == {"output_width", "obj_colors"}

ConfThresh == 50
NmsThresh == 40
PeakThresh == 20
NumClasses == 3
DownRatio == 4

\* load_configs_model: the result is <<"ok", configs>> or <<"ValueError", configs>>.
load_configs_model(model_name, c) ==
  IF model_name = "darknet"
    THEN <<"ok", [c EXCEPT !.keys = @ \cup CommonKeys \cup DarknetKeys,
                           !.arch = <<"darknet">>,
                           !.cfgfile = "file",
                           !.conf_thresh = ConfThresh,
                           !.nms_thresh = NmsThresh]>>
  ELSE IF model_name = "fpn_resnet"
    THEN <<"ok", [c EXCEPT !.keys = @ \cup CommonKeys \cup ResnetKeys,
                           !.arch = <<"fpn_resnet">>,
                           !.conf_thresh = ConfThresh,
                           !.k = TopK,
                           !.peak_thresh = PeakThresh,
                           !.num_classes = NumClasses,
                           !.down_ratio = DownRatio]>>
  ELSE <<"ValueError", [c EXCEPT !.keys = @ \cup {"model_path"}]>>

LimX == <<0, 50>>
LimY == <<-25, 25>>
LimZ == <<-1, 3>>

load_configs(model_name) ==
  LET bev == [EmptyConfigs EXCEPT !.keys = BevKeys,
                                  !.lim_x = LimX, !.lim_y = LimY, !.lim_z = LimZ,
                                  !.bev_width = BevSide, !.bev_height = BevSide]
      r == load_configs_model(model_name, bev)
  IN IF r[1] = "ok"
       THEN <<"ok", [r[2] EXCEPT !.keys = @ \cup VisKeys]>>
       ELSE r

\* ------------------------------------------------------------ numeric helpers
\* np.arctan2(im, re) on the unit-square directions, in units of pi/4.
Atan2(im, re) ==
  IF im = 0 /\ re >= 0 THEN 0
  ELSE IF im = 0 THEN 4
  ELSE IF im > 0 THEN (IF re > 0 THEN 1 ELSE IF re = 0 THEN 2 ELSE 3)
  ELSE (IF re > 0 THEN -1 ELSE IF re = 0 THEN -2 ELSE -3)

\* Logistic sigmoid, argument and value in 1/100, as a monotone step table.
sigmoid(x) ==
  IF x <= -150 THEN 12
  ELSE IF x <= -50 THEN 27
  ELSE IF x < 0 THEN 45
  ELSE IF x = 0 THEN 50
  ELSE IF x <= 20 THEN 53
  ELSE IF x <= 40 THEN 58
  ELSE IF x <= 60 THEN 62
  ELSE IF x <= 80 THEN 67
  ELSE IF x <= 150 THEN 73
  ELSE 88

Max2(a, b) == IF a >= b THEN a ELSE b

\* ------------------------------------------------------------ direct regression
\* A raw row is <<x, y, w, l, im, re, objectness, class_score, class_pred>>.
DarknetRows ==
  << <<Px(304), Px(304), Px(20), Px(40), 0, 1, 90, 90, 1>>,
     <<Px(306), Px(304), Px(20), Px(40), 1, 1, 80, 90, 1>>,
     <<Px(100), Px(616), Px(20), Px(40), 1, 0, 70, 90, 0>>,
     <<Px(304), Px(300), Px(20), Px(40), 0, -1, 40, 90, 1>>,
     <<0 - Px(8), Px(200), Px(10), Px(10), -1, -1, 60, 90, 2>>,
     <<Px(608), Px(608), Px(20), Px(40), 0, 0, 85, 90, 2>> >>

\* Intersection over union of the BEV footprints (whole pixels), as the pair
\* <<intersection, union>>.
Overlap1(c1, s1, c2, s2) ==
  Max2(0, Min2(2 * c1 + s1, 2 * c2 + s2) - Max2(2 * c1 - s1, 2 * c2 - s2)) \div 200

IoU(a, b) ==
  LET inter == Overlap1(a[1], a[3], b[1], b[3]) * Overlap1(a[2], a[4], b[2], b[4])
      areaA == (a[3] \div 100) * (a[4] \div 100)
      areaB == (b[3] \div 100) * (b[4] \div 100)
  IN <<inter, areaA + areaB - inter>>

Suppresses(a, b, nms_thresh) ==
  LET io == IoU(a, b)
  IN a[9] = b[9] /\ io[2] > 0 /\ 100 * io[1] > nms_thresh * io[2]

\* Index of the first row of highest objectness.
Best(rows) ==
  CHOOSE i \in 1..Len(rows) :
    \A j \in 1..Len(rows) : rows[j][7] < rows[i][7] \/ (rows[j][7] = rows[i][7] /\ i <= j)

RECURSIVE Nms(_, _)
Nms(rows, nms_thresh) ==
  IF rows = <<>> THEN <<>>
  ELSE LET b == rows[Best(rows)]
           rest == SelectSeq(rows, LAMBDA r : r # b /\ ~Suppresses(b, r, nms_thresh))
       IN <<b>> \o Nms(rest, nms_thresh)

\* post_processing_v2: per sample, thresholding then suppression; a sample
\* with no survivor is None.
post_processing_v2(outputs, conf_thresh, nms_thresh) ==
  [s \in 1..Len(outputs) |->
     LET kept == SelectSeq(outputs[s], LAMBDA r : r[7] >= conf_thresh)
         out == Nms(kept, nms_thresh)
     IN [none |-> out = <<>>, rows |-> out]]

\* ------------------------------------------------------------ heatmap keypoints
\* The heat map is one row of GridW cells; hm_cen has NumClasses channels.
Cells == 0..(GridW - 1)

Classes == 0..(NumClasses - 1)

LowLogit == 0 - 200

HighLogit == 2 * 100

\* The heads the backend yields for a batch of b samples in which the
\* <<sample, class, cell>> positions of hot carry a high centre logit.  zsel
\* picks the z_coor map: all inside lim_z, or outside it in every other cell.
HeadsOf(b, hot, zsel) ==
  [ hm_cen |-> [s \in 1..b |-> [c \in Classes |-> [i \in Cells |->
                  IF <<s, c, i>> \in hot THEN HighLogit ELSE LowLogit]]],
    cen_offset |-> [s \in 1..b |-> [i \in Cells |-> <<0, 0>>]],
    direction |-> [s \in 1..b |-> [i \in Cells |->
                  IF i % 2 = 0 THEN <<1, 1>> ELSE <<0, -1>>]],
    z_coor |-> [s \in 1..b |-> [i \in Cells |->
                  IF zsel = "mixed" /\ i % 2 = 0
                    THEN Metres(4) ELSE 0]],
    dim |-> [s \in 1..b |-> [i \in Cells |->
                  <<Metres(3) \div 2, Px(20), Px(40)>>]] ]

NoHeads ==
  [ hm_cen |-> <<>>, cen_offset |-> <<>>, direction |-> <<>>,
    z_coor |-> <<>>, dim |-> <<>> ]

\* _sigmoid applied to a batched head, element by element.
SigmoidHm(hm) ==
  [s \in DOMAIN hm |-> [c \in Classes |-> [i \in Cells |-> sigmoid(hm[s][c][i])]]]

SigmoidOffset(off) ==
  [s \in DOMAIN off |-> [i \in Cells |->
     <<sigmoid(off[s][i][1]), sigmoid(off[s][i][2])>>]]

\* A cell is a local peak of its channel when no neighbour exceeds it;
\* other cells score 0.
PeakScore(heat, c, i) ==
  IF \A j \in Cells : (j = i - 1 \/ j = i + 1) => heat[c][j] <= heat[c][i]
    THEN heat[c][i] ELSE 0

\* Positions <<class, cell>> in flattened (channel-major) order.
Flat(p) == p[1] * GridW + p[2]

RECURSIVE TopPositions(_, _, _)
TopPositions(heat, S, n) ==
  IF n = 0 \/ S = {} THEN <<>>
  ELSE LET best == CHOOSE p \in S : \A q \in S :
                     \/ PeakScore(heat, q[1], q[2]) < PeakScore(heat, p[1], p[2])
                     \/ /\ PeakScore(heat, q[1], q[2]) = PeakScore(heat, p[1], p[2])
                        /\ Flat(p) <= Flat(q)
       IN <<best>> \o TopPositions(heat, S \ {best}, n - 1)

\* The candidate rows <<score, xs, ys, z, h, w, l, im, re, class>> of one
\* sample gathered at the positions top; xs, ys are in 1/100 cell.
Gather(top, hm, off, dir, z, dim) ==
  [n \in 1..Len(top) |->
     << PeakScore(hm, top[n][1], top[n][2]),
        top[n][2] * 100 + off[top[n][2]][1],
        0 * 100 + off[top[n][2]][2],
        z[top[n][2]],
        dim[top[n][2]][1], dim[top[n][2]][2], dim[top[n][2]][3],
        dir[top[n][2]][1], dir[top[n][2]][2],
        top[n][1] >>]

\* decode: per sample the K best peaks over all channels and cells.
decode(hm_cen, cen_offset, direction, z_coor, dim, K) ==
  [s \in DOMAIN hm_cen |->
     Gather(TopPositions(hm_cen[s], Classes \X Cells, K),
            hm_cen[s], cen_offset[s], direction[s], z_coor[s], dim[s])]

\* The rows of one class scoring above peak_thresh, as
\* <<score, x, y, z, h, w, l, yaw>> in BEV pixels.
ClassRows(mine, c) ==
  [n \in 1..Len(mine) |->
     << mine[n][1],
        mine[n][2] * c.down_ratio,
        mine[n][3] * c.down_ratio,
        mine[n][4], mine[n][5], mine[n][6], mine[n][7],
        Atan2(mine[n][8], mine[n][9]) >>]

\* post_processing: per sample and class, the rows above peak_thresh.
post_processing(detections, c) ==
  [s \in DOMAIN detections |->
     [j \in 0..(c.num_classes - 1) |->
        ClassRows(SelectSeq(detections[s],
                            LAMBDA r : r[10] = j /\ r[1] > c.peak_thresh), c)]]

\* ------------------------------------------------------------ state
VARIABLES
  pc,          \* position in the pipeline
  err,         \* the exception that ended it, or "none"
  configs,     \* the parameter bundle (an edict)
  model,       \* the backend create_model built: "none", "darknet", "fpn_resnet"
  batch,       \* the input batch of the invocations
  outputs,     \* detect_objects' outputs
  decoded,     \* per sample, the number of candidates the decoder produced
  detections,  \* detect_objects' detections
  objects,     \* detect_objects' objects
  origin,      \* origin[j]: index in detections of the candidate behind objects[j]
  idx,         \* position of the projection loop in detections
  branch,      \* decode branch taken by the current invocation
  inferCalls,  \* number of calls of the inference backend
  results      \* the lists returned by the invocations so far

vars == <<pc, err, configs, model, batch, outputs, decoded, detections,
          objects, origin, idx, branch, inferCalls, results>>

\* An input batch is identified by what a backend yields for it: its size b,
\* the picks (rows per sample, or hot <<sample, class, cell>> positions) and
\* the z_coor map.
NoBatch == [b |-> 0, picks |-> {}, zsel |-> "in"]

NoOutput == [kind |-> "none", rows |-> <<>>, heads |-> NoHeads]

Init ==
  /\ pc = "start"
  /\ err = "none"
  /\ configs = EmptyConfigs
  /\ model = "none"
  /\ batch = NoBatch
  /\ outputs = NoOutput
  /\ decoded = <<>>
  /\ detections = <<>>
  /\ objects = <<>>
  /\ origin = <<>>
  /\ idx = 1
  /\ branch = "none"
  /\ inferCalls = 0
  /\ results = <<>>

\* ------------------------------------------------------------ configuration steps
LoadConfigs ==
  /\ pc = "start"
  /\ \E model_name \in ModelNames :
       LET r == load_configs(model_name)
       IN /\ configs' = r[2]
          /\ pc' = IF r[1] = "ok" THEN "configured" ELSE "error"
          /\ err' = IF r[1] = "ok" THEN "none" ELSE r[1]
  /\ UNCHANGED <<model, batch, outputs, decoded, detections, objects, origin,
                 idx, branch, inferCalls, results>>

\* The caller's changes to the bundle it passes on: another architecture
\* name, a parameter removed, or cfgfile set to None.
Edits ==
  [op : {"arch"}, arch : ArchValues, key : {"arch"}]
    \cup [op : {"del"}, arch : {<<>>}, key : {"k", "nms_thresh", "conf_thresh"}]
    \cup [op : {"none"}, arch : {<<>>}, key : {"cfgfile"}]

ApplyEdit(c, e) ==
  IF e.op = "arch" THEN [c EXCEPT !.arch = e.arch, !.keys = @ \cup {"arch"}]
  ELSE IF e.op = "del" THEN [c EXCEPT !.keys = @ \ {e.key}]
  ELSE [c EXCEPT !.cfgfile = "None", !.keys = @ \cup {"cfgfile"}]

EditConfigs ==
  /\ \/ pc = "configured"
     \/ pc = "modelReady" /\ results = <<>>
  /\ \E e \in Edits :
       /\ ApplyEdit(configs, e) # configs
       /\ configs' = ApplyEdit(configs, e)
  /\ pc' = IF pc = "configured" THEN "edited" ELSE "ready"
  /\ UNCHANGED <<err, model, batch, outputs, decoded, detections, objects,
                 origin, idx, branch, inferCalls, results>>

\* The test create_model branches on, lines 172-182.
CreateBranch(c) ==
  IF c.arch = <<"darknet">> /\ c.cfgfile # "None" THEN "darknet"
  ELSE IF Contains(c.arch, "fpn_resnet") THEN "fpn_resnet"
  ELSE "none"

\* create_model's choice of backbone: "darknet", "fpn_resnet", or the
\* exception raised.
CreateBackend(c) ==
  IF ~Has(c, "arch") THEN "AttributeError"
  ELSE IF c.arch = <<"darknet">> /\ ~Has(c, "cfgfile") THEN "AttributeError"
  ELSE IF CreateBranch(c) = "darknet"
    THEN (IF Has(c, "use_giou_loss") THEN "darknet" ELSE "AttributeError")
  ELSE IF CreateBranch(c) = "fpn_resnet"
    THEN (IF HasAll(c, {"num_layers", "heads", "head_conv", "imagenet_pretrained"})
            THEN "fpn_resnet" ELSE "AttributeError")
  ELSE "AssertionError"

CreateModel ==
  /\ pc \in {"configured", "edited"}
  /\ \E weights \in BOOLEAN :
       LET b == IF ~Has(configs, "pretrained_filename") THEN "AttributeError"
                ELSE IF ~weights THEN "AssertionError"
                ELSE CreateBackend(configs)
       IN IF b \in {"darknet", "fpn_resnet"}
            THEN /\ model' = b
                 /\ configs' = [configs EXCEPT !.keys = @ \cup {"device"}]
                 /\ pc' = IF pc = "edited" THEN "ready" ELSE "modelReady"
                 /\ err' = err
            ELSE /\ pc' = "error"
                 /\ err' = b
                 /\ UNCHANGED <<model, configs>>
  /\ UNCHANGED <<batch, outputs, decoded, detections, objects, origin, idx,
                 branch, inferCalls, results>>

\* ------------------------------------------------------------ detect_objects
\* Subsets of S with at most n elements.
RECURSIVE SubsetsUpTo(_, _)
SubsetsUpTo(S, n) ==
  IF n = 0 THEN {{}}
  ELSE LET P == SubsetsUpTo(S, n - 1)
       IN P \cup {A \cup {x} : A \in P, x \in S}

\* The rows of DarknetRows picked for sample s, in table order.
RECURSIVE RowsOf(_, _, _)
RowsOf(picks, s, i) ==
  IF i > Len(DarknetRows) THEN <<>>
  ELSE (IF <<s, i>> \in picks THEN <<DarknetRows[i]>> ELSE <<>>)
         \o RowsOf(picks, s, i + 1)

\* Batches for the direct-regression backend: 1..MaxBatch samples holding at
\* most MaxRows rows in all, no row twice.
DarknetBatches ==
  UNION { { [b |-> b, picks |-> A, zsel |-> "in"] :
              A \in { A \in SubsetsUpTo((1..b) \X (1..Len(DarknetRows)), MaxRows) :
                        \A p, q \in A : p[2] = q[2] => p = q } } :
          b \in 1..MaxBatch }

\* Hot positions: any channel and cell of the first sample, the first cell of
\* the vehicle channel of the others.
HotPositions(b) ==
  { p \in (1..b) \X Classes \X Cells : p[1] = 1 \/ (p[2] = 1 /\ p[3] = 0) }

\* Batches for the heatmap backend: at most MaxHot hot positions.
ResnetBatches ==
  UNION { { [b |-> b, picks |-> A, zsel |-> z] :
              A \in SubsetsUpTo(HotPositions(b), MaxHot), z \in {"in", "mixed"} } :
          b \in 1..MaxBatch }

Batches(m) == IF m = "darknet" THEN DarknetBatches ELSE ResnetBatches

\* model(input_bev_maps): the raw output, a function of the backend and the
\* batch alone.
Forward(m, x) ==
  IF m = "darknet"
    THEN [kind |-> "rows", rows |-> [s \in 1..x.b |-> RowsOf(x.picks, s, 1)],
          heads |-> NoHeads]
    ELSE [kind |-> "heads", rows |-> <<>>, heads |-> HeadsOf(x.b, x.picks, x.zsel)]

\* outputs = model(input_bev_maps)
Infer ==
  /\ pc \in {"modelReady", "ready"}
  /\ IF results = <<>>
       THEN \E x \in Batches(model) : batch' = x
       ELSE batch' = batch
  /\ outputs' = Forward(model, batch')
  /\ inferCalls' = inferCalls + 1
  /\ pc' = "inferred"
  /\ UNCHANGED <<err, configs, model, decoded, detections, objects, origin, idx,
                 branch, results>>

\* The branch detect_objects takes on configs.arch.
DetectBranch(c) ==
  IF Contains(c.arch, "darknet") THEN "darknet"
  ELSE IF Contains(c.arch, "fpn_resnet") THEN "fpn_resnet"
  ELSE "none"

NominalHeight == Metres(3) \div 2

ClassId == 1

\* detections.append([1, x, y, 0.0, 1.50, w, l, yaw])
DarknetCandidate(obj) ==
  <<ClassId, obj[1], obj[2], 0, NominalHeight, obj[3], obj[4], Atan2(obj[5], obj[6])>>

RECURSIVE DarknetDetections(_, _)
DarknetDetections(output_post, sample_i) ==
  IF sample_i > Len(output_post) THEN <<>>
  ELSE (IF output_post[sample_i].none THEN <<>>
        ELSE [n \in 1..Len(output_post[sample_i].rows) |->
                DarknetCandidate(output_post[sample_i].rows[n])])
         \o DarknetDetections(output_post, sample_i + 1)

\* The vehicle rows of every sample, one after the other.
RECURSIVE VehicleRowsFrom(_, _)
VehicleRowsFrom(post, s) ==
  IF s > Len(post) THEN <<>> ELSE post[s][1] \o VehicleRowsFrom(post, s + 1)

AllSamplesDetections(post) == VehicleRowsFrom(post, 1)

\* detections = detections[0][1]
SelectDetections(post) == post[1][1]

DecodeFailure(e, o) ==
  [err |-> e, outputs |-> o, decoded |-> <<>>, detections |-> <<>>]

\* The direct-regression branch without the test for None: iterating over a
\* sample that is None raises.
DecodeDarknetNoneRaises(c, out) ==
  IF ~HasAll(c, {"conf_thresh", "nms_thresh"}) THEN DecodeFailure("AttributeError", out)
  ELSE IF out.kind # "rows" THEN DecodeFailure("ShapeError", out)
  ELSE IF \E s \in DOMAIN out.rows :
            post_processing_v2(out.rows, c.conf_thresh, c.nms_thresh)[s].none
    THEN DecodeFailure("TypeError", out)
  ELSE [err |-> "none", outputs |-> out,
        decoded |-> [s \in DOMAIN out.rows |-> Len(out.rows[s])],
        detections |-> DarknetDetections(
           post_processing_v2(out.rows, c.conf_thresh, c.nms_thresh), 1)]

\* The direct-regression branch, lines 224-233.
DecodeDarknet(c, out) ==
  IF ~HasAll(c, {"conf_thresh", "nms_thresh"}) THEN DecodeFailure("AttributeError", out)
  ELSE IF out.kind # "rows" THEN DecodeFailure("ShapeError", out)
  ELSE [err |-> "none", outputs |-> out,
        decoded |-> [s \in DOMAIN out.rows |-> Len(out.rows[s])],
        detections |-> DarknetDetections(
           post_processing_v2(out.rows, c.conf_thresh, c.nms_thresh), 1)]

\* Lines 240-244, on the outputs o2 as lines 238-239 left them and the
\* decoder's result dec.
DecodeHeads(c, o2, dec) ==
  IF ~HasAll(c, {"num_classes", "down_ratio", "peak_thresh"})
    THEN DecodeFailure("AttributeError", o2)
  ELSE [err |-> "none", outputs |-> o2,
        decoded |-> [s \in DOMAIN dec |-> Len(dec[s])],
        detections |-> SelectDetections(post_processing(dec, c))]

\* The heatmap branch from line 240 on: configs.k is read first.
DecodeSigmoided(c, o2) ==
  IF ~Has(c, "k") THEN DecodeFailure("AttributeError", o2)
  ELSE DecodeHeads(c, o2,
         decode(o2.heads.hm_cen, o2.heads.cen_offset, o2.heads.direction,
                o2.heads.z_coor, o2.heads.dim, c.k))

\* The heatmap branch, lines 238-244: both sigmoids are written into outputs
\* before anything else is read.
DecodeResnet(c, out) ==
  IF out.kind # "heads" THEN DecodeFailure("ShapeError", out)
  ELSE DecodeSigmoided(c,
         [out EXCEPT !.heads.hm_cen = SigmoidHm(@),
                     !.heads.cen_offset = SigmoidOffset(@)])

\* Lines 221-244 as one step: the record of the exception raised ("none"
\* when there is none), the outputs as left behind, the number of decoded
\* candidates per sample and the detections.  With neither branch taken,
\* detections is unbound when line 250 reads it.
DecodeStep(c, out) ==
  IF ~Has(c, "arch") THEN DecodeFailure("AttributeError", out)
  ELSE IF DetectBranch(c) = "darknet" THEN DecodeDarknet(c, out)
  ELSE IF DetectBranch(c) = "fpn_resnet" THEN DecodeResnet(c, out)
  ELSE DecodeFailure("UnboundLocalError", out)

\* The list of the previous invocation, not a new one.
KeptObjects == objects

NewObjects == <<>>

Decode ==
  /\ pc = "inferred"
  /\ \E r \in {DecodeStep(configs, outputs)} :
        /\ outputs' = r.outputs
        /\ decoded' = r.decoded
        /\ detections' = r.detections
        /\ err' = r.err
        /\ pc' = IF r.err = "none" THEN "project" ELSE "error"
  /\ branch' = IF Has(configs, "arch") THEN DetectBranch(configs) ELSE "none"
  /\ objects' = NewObjects
  /\ origin' = <<>>
  /\ idx' = 1
  /\ UNCHANGED <<configs, model, batch, inferCalls, results>>

\* img_x, img_y, bbox_img_width, bbox_img_length of a candidate, in 1/U m.
\* bev / bev_height * range is bev * range * (U / (100 * bev_height)).
ToMetres(bev, side, range) == bev * range * (U \div (100 * side))

ImgX(obj, c) == ToMetres(obj[3], c.bev_height, c.lim_x[2] - c.lim_x[1])

\* img_y without the shift to the centre of lim_y.
ImgYNoCentre(obj, c) == ToMetres(obj[2], c.bev_width, c.lim_y[2] - c.lim_y[1])

ImgY(obj, c) ==
  ToMetres(obj[2], c.bev_width, c.lim_y[2] - c.lim_y[1])
    - ((c.lim_y[2] - c.lim_y[1]) * U) \div 2

\* The candidate's first field kept as the class id.
ProjectKeepFirst(obj, c) ==
  << obj[1], ImgX(obj, c), ImgY(obj, c), obj[4], obj[5],
     ToMetres(obj[6], c.bev_width, c.lim_y[2] - c.lim_y[1]),
     ToMetres(obj[7], c.bev_height, c.lim_x[2] - c.lim_x[1]),
     obj[8] >>

\* The box height scaled like the box length.
ProjectScaledHeight(obj, c) ==
  << ClassId, ImgX(obj, c), ImgY(obj, c), obj[4],
     ToMetres(obj[5], c.bev_height, c.lim_x[2] - c.lim_x[1]),
     ToMetres(obj[6], c.bev_width, c.lim_y[2] - c.lim_y[1]),
     ToMetres(obj[7], c.bev_height, c.lim_x[2] - c.lim_x[1]),
     obj[8] >>

\* [1, img_x, img_y, z, bbox_bev_height, bbox_img_width, bbox_img_length, yaw]
Project(obj, c) ==
  << ClassId, ImgX(obj, c), ImgY(obj, c), obj[4], obj[5],
     ToMetres(obj[6], c.bev_width, c.lim_y[2] - c.lim_y[1]),
     ToMetres(obj[7], c.bev_height, c.lim_x[2] - c.lim_x[1]),
     obj[8] >>

\* The range test without the test of z.
InRangeNoZ(img_x, img_y, z, c) ==
  /\ Metres(c.lim_x[1]) <= img_x /\ img_x <= Metres(c.lim_x[2])
  /\ Metres(c.lim_y[1]) <= img_y /\ img_y <= Metres(c.lim_y[2])

\* The range test with the upper bounds excluded.
InRangeExclusive(img_x, img_y, z, c) ==
  /\ Metres(c.lim_x[1]) <= img_x /\ img_x < Metres(c.lim_x[2])
  /\ Metres(c.lim_y[1]) <= img_y /\ img_y < Metres(c.lim_y[2])
  /\ Metres(c.lim_z[1]) <= z /\ z < Metres(c.lim_z[2])

\* The range test of lines 261-263 on img_x, img_y and z.
InRange(img_x, img_y, z, c) ==
  /\ Metres(c.lim_x[1]) <= img_x /\ img_x <= Metres(c.lim_x[2])
  /\ Metres(c.lim_y[1]) <= img_y /\ img_y <= Metres(c.lim_y[2])
  /\ Metres(c.lim_z[1]) <= z /\ z <= Metres(c.lim_z[2])

\* One iteration of the loop over detections.
ProjectStep ==
  /\ pc = "project"
  /\ idx <= Len(detections)
  /\ LET obj == detections[idx]
     IN IF InRange(ImgX(obj, configs), ImgY(obj, configs), obj[4], configs)
          THEN /\ objects' = Append(objects, Project(obj, configs))
               /\ origin' = Append(origin, idx)
          ELSE UNCHANGED <<objects, origin>>
  /\ idx' = idx + 1
  /\ UNCHANGED <<pc, err, configs, model, batch, outputs, decoded, detections,
                 branch, inferCalls, results>>

\* return objects; the caller then runs the same batch a second time.
Return ==
  /\ pc = "project"
  /\ idx > Len(detections)
  /\ results' = Append(results, objects)
  /\ pc' = IF results = <<>> THEN "ready" ELSE "done"
  /\ UNCHANGED <<err, configs, model, batch, outputs, decoded, detections,
                 objects, origin, idx, branch, inferCalls>>

Next ==
  \/ LoadConfigs
  \/ EditConfigs
  \/ CreateModel
  \/ Infer
  \/ Decode
  \/ ProjectStep
  \/ Return

Spec == Init /\ [][Next]_vars

\* ------------------------------------------------------------ properties
\* An invocation of detect_objects has returned and nothing has run since.
JustReturned == Len(results) >= 1 /\ pc \in {"ready", "done"}

\* The projection as the specification states it, in 1/U m.
SpecImgX(d) ==
  d[3] * (configs.lim_x[2] - configs.lim_x[1]) * (U \div (100 * configs.bev_height))

SpecImgY(d) ==
  d[2] * (configs.lim_y[2] - configs.lim_y[1]) * (U \div (100 * configs.bev_width))
    - ((configs.lim_y[2] - configs.lim_y[1]) * U) \div 2

Within(v, lim) == Metres(lim[1]) <= v /\ v <= Metres(lim[2])

Gated(d) ==
  /\ Within(SpecImgX(d), configs.lim_x)
  /\ Within(SpecImgY(d), configs.lim_y)
  /\ Within(d[4], configs.lim_z)

DetectionInLimits(o) ==
  /\ Within(o[2], configs.lim_x)
  /\ Within(o[3], configs.lim_y)
  /\ Within(o[4], configs.lim_z)

\* C1: every detection in the list detect_objects builds and returns has its
\* x within lim_x, its y within lim_y and its z within lim_z, for either
\* backend.
RangeInvariant ==
  /\ \A j \in 1..Len(objects) : DetectionInLimits(objects[j])
  /\ \A r \in 1..Len(results) : \A j \in 1..Len(results[r]) :
       DetectionInLimits(results[r][j])

\* C1 witness: a list with a detection was returned although a candidate lay
\* above lim_z.
RangeInvariantWitness ==
  /\ JustReturned
  /\ results[1] # <<>>
  /\ \E i \in 1..Len(detections) : detections[i][4] > Metres(configs.lim_z[2])

RecognisedArch(c) ==
  Has(c, "arch") /\ c.arch \in {<<"darknet">>, <<"fpn_resnet">>}

RequiredPresent(c) ==
  /\ c.arch = <<"darknet">> =>
       HasAll(c, {"conf_thresh", "nms_thresh", "cfgfile"}) /\ c.cfgfile # "None"
  /\ c.arch = <<"fpn_resnet">> =>
       HasAll(c, {"k", "peak_thresh", "num_classes", "down_ratio"})

ValidConfig(c) == RecognisedArch(c) /\ RequiredPresent(c)

\* C3: with a bundle whose architecture name is not one of the two variants,
\* or that lacks a parameter of the selected backend, the backend is never
\* invoked, no raw output is produced or modified and nothing is returned.
ConfigErrorsAbortBeforeInference ==
  (pc # "start" /\ ~ValidConfig(configs)) =>
    /\ inferCalls = 0
    /\ outputs = NoOutput
    /\ results = <<>>

\* C4: an invocation on a valid bundle and a backend of the same
\* architecture raises nothing, and when no candidate passes the range
\* gate (none decoded, none left by suppression, or all gated out) the list
\* returned is empty.
EmptyIsNotAnError ==
  /\ (pc = "error" /\ inferCalls > 0) =>
       ~(ValidConfig(configs) /\ model = DetectBranch(configs))
  /\ JustReturned =>
       ((\A i \in 1..Len(detections) : ~Gated(detections[i]))
          => results[Len(results)] = <<>>)

\* C4 witness: the direct-regression backend yielded rows, suppression left
\* None for every sample, and the empty list was returned.
EmptyIsNotAnErrorWitness ==
  /\ JustReturned
  /\ branch = "darknet"
  /\ \E s \in 1..Len(decoded) : decoded[s] > 0
  /\ detections = <<>>
  /\ results[Len(results)] = <<>>

AtCentre(d) == d[2] = Px(304) /\ d[3] = Px(304)

ScenarioConfig ==
  /\ configs.bev_width = 608 /\ configs.bev_height = 608
  /\ configs.lim_x = <<0, 50>> /\ configs.lim_y = <<-25, 25>>

\* C6: with bev_width = bev_height = 608, lim_x = [0, 50], lim_y = [-25, 25],
\* a candidate at bev_x = 304, bev_y = 304 is emitted with img_x = 25.0 and
\* img_y = 0.0.
ProjectionScenario ==
  /\ \A j \in 1..Len(objects) :
       (ScenarioConfig /\ AtCentre(detections[origin[j]]))
         => (objects[j][2] = Metres(25) /\ objects[j][3] = 0)
  /\ JustReturned =>
       \A i \in 1..Len(detections) :
         (ScenarioConfig /\ AtCentre(detections[i])
            /\ Within(detections[i][4], configs.lim_z))
           => \E j \in 1..Len(origin) : origin[j] = i

\* C6 witness: a candidate at the image centre was projected and emitted.
ProjectionScenarioWitness ==
  /\ ScenarioConfig
  /\ \E j \in 1..Len(objects) : AtCentre(detections[origin[j]])

\* C7: on the heatmap branch the decoder produces at most k candidates per
\* sample, and detections, objects and the list returned hold at most k.
TopKBound ==
  (branch = "fpn_resnet" /\ pc \in {"project", "ready", "done"}) =>
    /\ \A s \in 1..Len(decoded) : decoded[s] <= configs.k
    /\ Len(detections) <= configs.k
    /\ Len(objects) <= configs.k
    /\ \A r \in 1..Len(results) : Len(results[r]) <= configs.k

\* C7 witness: more than k cells of the first sample were hot and exactly k
\* detections were returned.
TopKBoundWitness ==
  /\ branch = "fpn_resnet"
  /\ JustReturned
  /\ Cardinality({p \in batch.picks : p[1] = 1}) > configs.k
  /\ Len(results[1]) = configs.k

\* C8: every emitted detection has class id 1, whatever the candidate's
\* first field; every direct-regression candidate has class id 1 and the
\* box height 1.50.
SingleClassLabel ==
  /\ \A j \in 1..Len(objects) : objects[j][1] = 1
  /\ \A r \in 1..Len(results) : \A j \in 1..Len(results[r]) : results[r][j][1] = 1
  /\ (branch = "darknet" /\ pc \in {"project", "ready", "done"}) =>
       \A i \in 1..Len(detections) :
         detections[i][1] = 1 /\ 2 * detections[i][5] = Metres(3)

\* C8 witness: a heatmap candidate, whose first field is its score, was
\* emitted.
SingleClassLabelWitness ==
  /\ branch = "fpn_resnet"
  /\ \E j \in 1..Len(objects) : detections[origin[j]][1] # 1

\* C9: z, box height and yaw of every emitted detection are those of the
\* candidate behind it.
PassThrough ==
  \A j \in 1..Len(objects) :
    /\ objects[j][4] = detections[origin[j]][4]
    /\ objects[j][5] = detections[origin[j]][5]
    /\ objects[j][8] = detections[origin[j]][8]

\* C9 witness: a detection with a yaw other than 0 was emitted with a width
\* other than its candidate's.
PassThroughWitness ==
  \E j \in 1..Len(objects) :
    /\ objects[j][8] # 0
    /\ objects[j][6] # detections[origin[j]][6]

\* C10: create_model and detect_objects choose the same backend for every
\* architecture name, and reject the same names.
DispatchConsistent ==
  Has(configs, "arch") => CreateBranch(configs) = DetectBranch(configs)

====
